---- MODULE Spec2Model ----
(***************************************************************************)
(* Model of the IDAKLU solver option record, Options::Options(py::dict),   *)
(* in pybamm/solvers/c_solvers/idaklu/Options.cpp.                         *)
(*                                                                         *)
(* The constructor copies the dictionary entries into the members, then    *)
(* validates the jacobian kind, the (jacobian, linear_solver) pair and the *)
(* preconditioner, throwing std::domain_error at the first failure.        *)
(* Strings are modelled as strings and the exception messages are built by *)
(* the same concatenations as in the source.                               *)
(***************************************************************************)
EXTENDS Integers, Sequences, FiniteSets, TLC

\* -------------------------------------------------------------------------
\* Bounds of the model
\* -------------------------------------------------------------------------

\* Largest value drawn for options["precon_half_bandwidth"].
MaxHalfBandwidth == 1

\* Largest value drawn for options["num_threads"].
MaxThreads == 2

\* -------------------------------------------------------------------------
\* Values drawn for the dictionary entries
\* -------------------------------------------------------------------------

\* The jacobian kinds the documentation accepts.
AcceptedJacobians == {"sparse", "banded", "dense", "none", "matrix-free"}

\* The linear solvers the documentation accepts.
DirectSolvers ==
    {"SUNLinSol_Dense", "SUNLinSol_KLU", "SUNLinSol_cuSolverSp_batchQR", "SUNLinSol_Band"}

IterativeSolvers ==
    {"SUNLinSol_SPBCGS", "SUNLinSol_SPFGMR", "SUNLinSol_SPGMR", "SUNLinSol_SPTFQMR"}

AcceptedLinearSolvers == DirectSolvers \cup IterativeSolvers

AcceptedPreconditioners == {"none", "BBDP"}

\* Inputs: every accepted value and some values outside the accepted sets.
JacobianInputs == AcceptedJacobians \cup {"full", "Sparse"}

LinearSolverInputs == AcceptedLinearSolvers \cup {"SUNLinSol_LapackDense", "dense"}

PreconditionerInputs == AcceptedPreconditioners \cup {"ILU", "None"}

\* The documented compatibility matrix, as a set of (jacobian, linear_solver) pairs.
CompatibilityMatrix ==
    ({"dense", "none"} \X {"SUNLinSol_Dense"})
    \cup ({"sparse"} \X {"SUNLinSol_KLU", "SUNLinSol_cuSolverSp_batchQR"})
    \cup ({"banded"} \X {"SUNLinSol_Band"})
    \cup ({"sparse", "matrix-free"} \X IterativeSolvers)

\* -------------------------------------------------------------------------
\* Text helpers
\* -------------------------------------------------------------------------

\* s occurs in msg as a substring.
Contains(msg, s) ==
    \E i \in 1..(Len(msg) - Len(s) + 1) : SubSeq(msg, i, i + Len(s) - 1) = s

\* msg begins with s.
StartsWith(msg, s) ==
    Len(msg) >= Len(s) /\ SubSeq(msg, 1, Len(s)) = s

\* msg names the value v: it shows v between double quotes.
Names(msg, v) == Contains(msg, "\"" \o v \o "\"")

\* -------------------------------------------------------------------------
\* State
\* -------------------------------------------------------------------------

VARIABLES
    dict,     \* the py::dict handed to the latest constructor call
    status,   \* "none": no call yet; "constructed"; "threw"
    self,     \* the members of the constructed Options object
    error     \* the exception that left the constructor

vars == <<dict, status, self, error>>

NoDict == [print_stats |-> FALSE, jacobian |-> "", preconditioner |-> "",
           precon_half_bandwidth |-> 0, num_threads |-> 0, linear_solver |-> ""]

NoObject == [print_stats |-> FALSE, jacobian |-> "", preconditioner |-> "",
             precon_half_bandwidth |-> 0, num_threads |-> 0, linear_solver |-> "",
             using_sparse_matrix |-> FALSE, using_banded_matrix |-> FALSE,
             using_iterative_solver |-> FALSE]

NoError == [type |-> "", what |-> ""]

\* -------------------------------------------------------------------------
\* The constructor, Options.cpp:8-143
\* -------------------------------------------------------------------------

\* JacobianStage with the dense/none branch leaving using_sparse_matrix set.
JacobianStageDenseKeepsSparse(jacobian) ==
    IF jacobian = "sparse"
    THEN [threw |-> FALSE, what |-> "",
          using_sparse_matrix |-> TRUE, using_banded_matrix |-> FALSE]
    ELSE IF jacobian = "banded"
    THEN [threw |-> FALSE, what |-> "",
          using_sparse_matrix |-> FALSE, using_banded_matrix |-> TRUE]
    ELSE IF jacobian = "dense" \/ jacobian = "none"
    THEN [threw |-> FALSE, what |-> "",
          using_sparse_matrix |-> TRUE, using_banded_matrix |-> FALSE]
    ELSE IF jacobian = "matrix-free"
    THEN [threw |-> FALSE, what |-> "",
          using_sparse_matrix |-> TRUE, using_banded_matrix |-> FALSE]
    ELSE [threw |-> TRUE,
          what |-> "Unknown jacobian type \"" \o jacobian \o
                   "\". Should be one of \"sparse\", \"banded\", \"dense\", \"matrix-free\" or \"none\".",
          using_sparse_matrix |-> TRUE, using_banded_matrix |-> FALSE]

\* Lines 41-63: the matrix flags, or the "Unknown jacobian type" exception.
JacobianStage(jacobian) ==
    IF jacobian = "sparse"
    THEN [threw |-> FALSE, what |-> "",
          using_sparse_matrix |-> TRUE, using_banded_matrix |-> FALSE]
    ELSE IF jacobian = "banded"
    THEN [threw |-> FALSE, what |-> "",
          using_sparse_matrix |-> FALSE, using_banded_matrix |-> TRUE]
    ELSE IF jacobian = "dense" \/ jacobian = "none"
    THEN [threw |-> FALSE, what |-> "",
          using_sparse_matrix |-> FALSE, using_banded_matrix |-> FALSE]
    ELSE IF jacobian = "matrix-free"
    THEN [threw |-> FALSE, what |-> "",
          using_sparse_matrix |-> TRUE, using_banded_matrix |-> FALSE]
    ELSE [threw |-> TRUE,
          what |-> "Unknown jacobian type \"" \o jacobian \o
                   "\". Should be one of \"sparse\", \"banded\", \"dense\", \"matrix-free\" or \"none\".",
          using_sparse_matrix |-> TRUE, using_banded_matrix |-> FALSE]

\* IsIterativeName with the last alternative of the condition lost.
IsIterativeNameShort(linear_solver) ==
    \/ linear_solver = "SUNLinSol_SPBCGS"
    \/ linear_solver = "SUNLinSol_SPFGMR"
    \/ linear_solver = "SUNLinSol_SPGMR"

\* Lines 86-89: the linear solver is one of the four iterative solvers.
IsIterativeName(linear_solver) ==
    \/ linear_solver = "SUNLinSol_SPBCGS"
    \/ linear_solver = "SUNLinSol_SPFGMR"
    \/ linear_solver = "SUNLinSol_SPGMR"
    \/ linear_solver = "SUNLinSol_SPTFQMR"

\* Lines 78-127: the text of the five incompatibility exceptions.
BandedMessage(jacobian, linear_solver) ==
    "Unknown linear solver or incompatible options: " \o
    "jacobian = \"" \o jacobian \o "\" linear solver = \"" \o linear_solver \o
    "\". For a banded jacobian " \o
    "please use the SUNLinSol_Band linear solver"

\* SparseMessage without the linear solver in its text.
SparseMessageNoSolver(jacobian, linear_solver) ==
    "Unknown linear solver or incompatible options: " \o
    "jacobian = \"" \o jacobian \o
    "\". For a sparse jacobian " \o
    "please use the SUNLinSol_KLU linear solver"

SparseMessage(jacobian, linear_solver) ==
    "Unknown linear solver or incompatible options: " \o
    "jacobian = \"" \o jacobian \o "\" linear solver = \"" \o linear_solver \o
    "\". For a sparse jacobian " \o
    "please use the SUNLinSol_KLU linear solver"

MatrixFreeMessage(jacobian, linear_solver) ==
    "Unknown linear solver or incompatible options. " \o
    "jacobian = \"" \o jacobian \o "\" linear solver = \"" \o linear_solver \o
    "\". For a matrix-free jacobian " \o
    "please use one of the iterative linear solvers: \"SUNLinSol_SPBCGS\", " \o
    "\"SUNLinSol_SPFGMR\", \"SUNLinSol_SPGMR\", or \"SUNLinSol_SPTFQMR\"."

NoneMessage(jacobian, linear_solver) ==
    "Unknown linear solver or incompatible options: " \o
    "jacobian = \"" \o jacobian \o "\" linear solver = \"" \o linear_solver \o
    "\". For no jacobian please use the SUNLinSol_Dense solver"

GenericMessage(jacobian, linear_solver) ==
    "Unknown linear solver or incompatible options. " \o
    "jacobian = \"" \o jacobian \o "\" linear solver = \"" \o linear_solver \o "\""

\* LinearSolverStage without the branch for jacobian == "none".
LinearSolverStageNoNoneBranch(jacobian, linear_solver) ==
    IF linear_solver = "SUNLinSol_Dense" /\ (jacobian = "dense" \/ jacobian = "none")
    THEN [threw |-> FALSE, what |-> "", using_iterative_solver |-> FALSE]
    ELSE IF linear_solver = "SUNLinSol_KLU" /\ jacobian = "sparse"
    THEN [threw |-> FALSE, what |-> "", using_iterative_solver |-> FALSE]
    ELSE IF linear_solver = "SUNLinSol_cuSolverSp_batchQR" /\ jacobian = "sparse"
    THEN [threw |-> FALSE, what |-> "", using_iterative_solver |-> FALSE]
    ELSE IF linear_solver = "SUNLinSol_Band" /\ jacobian = "banded"
    THEN [threw |-> FALSE, what |-> "", using_iterative_solver |-> FALSE]
    ELSE IF jacobian = "banded"
    THEN [threw |-> TRUE, what |-> BandedMessage(jacobian, linear_solver),
          using_iterative_solver |-> FALSE]
    ELSE IF IsIterativeName(linear_solver) /\ (jacobian = "sparse" \/ jacobian = "matrix-free")
    THEN [threw |-> FALSE, what |-> "", using_iterative_solver |-> TRUE]
    ELSE IF jacobian = "sparse"
    THEN [threw |-> TRUE, what |-> SparseMessage(jacobian, linear_solver),
          using_iterative_solver |-> FALSE]
    ELSE IF jacobian = "matrix-free"
    THEN [threw |-> TRUE, what |-> MatrixFreeMessage(jacobian, linear_solver),
          using_iterative_solver |-> FALSE]
    ELSE [threw |-> TRUE, what |-> GenericMessage(jacobian, linear_solver),
          using_iterative_solver |-> FALSE]

\* LinearSolverStage with the iterative branch leaving using_iterative_solver unset.
LinearSolverStageFlagUnset(jacobian, linear_solver) ==
    IF linear_solver = "SUNLinSol_Dense" /\ (jacobian = "dense" \/ jacobian = "none")
    THEN [threw |-> FALSE, what |-> "", using_iterative_solver |-> FALSE]
    ELSE IF linear_solver = "SUNLinSol_KLU" /\ jacobian = "sparse"
    THEN [threw |-> FALSE, what |-> "", using_iterative_solver |-> FALSE]
    ELSE IF linear_solver = "SUNLinSol_cuSolverSp_batchQR" /\ jacobian = "sparse"
    THEN [threw |-> FALSE, what |-> "", using_iterative_solver |-> FALSE]
    ELSE IF linear_solver = "SUNLinSol_Band" /\ jacobian = "banded"
    THEN [threw |-> FALSE, what |-> "", using_iterative_solver |-> FALSE]
    ELSE IF jacobian = "banded"
    THEN [threw |-> TRUE, what |-> BandedMessage(jacobian, linear_solver),
          using_iterative_solver |-> FALSE]
    ELSE IF IsIterativeName(linear_solver) /\ (jacobian = "sparse" \/ jacobian = "matrix-free")
    THEN [threw |-> FALSE, what |-> "", using_iterative_solver |-> FALSE]
    ELSE IF jacobian = "sparse"
    THEN [threw |-> TRUE, what |-> SparseMessage(jacobian, linear_solver),
          using_iterative_solver |-> FALSE]
    ELSE IF jacobian = "matrix-free"
    THEN [threw |-> TRUE, what |-> MatrixFreeMessage(jacobian, linear_solver),
          using_iterative_solver |-> FALSE]
    ELSE IF jacobian = "none"
    THEN [threw |-> TRUE, what |-> NoneMessage(jacobian, linear_solver),
          using_iterative_solver |-> FALSE]
    ELSE [threw |-> TRUE, what |-> GenericMessage(jacobian, linear_solver),
          using_iterative_solver |-> FALSE]

\* Lines 65-127: using_iterative_solver, or one of the incompatibility exceptions.
LinearSolverStage(jacobian, linear_solver) ==
    IF linear_solver = "SUNLinSol_Dense" /\ (jacobian = "dense" \/ jacobian = "none")
    THEN [threw |-> FALSE, what |-> "", using_iterative_solver |-> FALSE]
    ELSE IF linear_solver = "SUNLinSol_KLU" /\ jacobian = "sparse"
    THEN [threw |-> FALSE, what |-> "", using_iterative_solver |-> FALSE]
    ELSE IF linear_solver = "SUNLinSol_cuSolverSp_batchQR" /\ jacobian = "sparse"
    THEN [threw |-> FALSE, what |-> "", using_iterative_solver |-> FALSE]
    ELSE IF linear_solver = "SUNLinSol_Band" /\ jacobian = "banded"
    THEN [threw |-> FALSE, what |-> "", using_iterative_solver |-> FALSE]
    ELSE IF jacobian = "banded"
    THEN [threw |-> TRUE, what |-> BandedMessage(jacobian, linear_solver),
          using_iterative_solver |-> FALSE]
    ELSE IF IsIterativeName(linear_solver) /\ (jacobian = "sparse" \/ jacobian = "matrix-free")
    THEN [threw |-> FALSE, what |-> "", using_iterative_solver |-> TRUE]
    ELSE IF jacobian = "sparse"
    THEN [threw |-> TRUE, what |-> SparseMessage(jacobian, linear_solver),
          using_iterative_solver |-> FALSE]
    ELSE IF jacobian = "matrix-free"
    THEN [threw |-> TRUE, what |-> MatrixFreeMessage(jacobian, linear_solver),
          using_iterative_solver |-> FALSE]
    ELSE IF jacobian = "none"
    THEN [threw |-> TRUE, what |-> NoneMessage(jacobian, linear_solver),
          using_iterative_solver |-> FALSE]
    ELSE [threw |-> TRUE, what |-> GenericMessage(jacobian, linear_solver),
          using_iterative_solver |-> FALSE]

\* PreconditionerStage with || where the source has &&.
PreconditionerStageOr(using_iterative_solver, preconditioner) ==
    IF using_iterative_solver
    THEN IF preconditioner # "none" \/ preconditioner # "BBDP"
         THEN [threw |-> TRUE,
               what |-> "Unknown preconditioner \"" \o preconditioner \o
                        "\", use one of \"BBDP\" or \"none\"",
               preconditioner |-> preconditioner]
         ELSE [threw |-> FALSE, what |-> "", preconditioner |-> preconditioner]
    ELSE [threw |-> FALSE, what |-> "", preconditioner |-> "none"]

\* PreconditionerStage without the else branch that resets the preconditioner.
PreconditionerStageNoReset(using_iterative_solver, preconditioner) ==
    IF using_iterative_solver
    THEN IF preconditioner # "none" /\ preconditioner # "BBDP"
         THEN [threw |-> TRUE,
               what |-> "Unknown preconditioner \"" \o preconditioner \o
                        "\", use one of \"BBDP\" or \"none\"",
               preconditioner |-> preconditioner]
         ELSE [threw |-> FALSE, what |-> "", preconditioner |-> preconditioner]
    ELSE [threw |-> FALSE, what |-> "", preconditioner |-> preconditioner]

\* PreconditionerStage without the check of the iterative branch.
PreconditionerStageUnchecked(using_iterative_solver, preconditioner) ==
    IF using_iterative_solver
    THEN [threw |-> FALSE, what |-> "", preconditioner |-> preconditioner]
    ELSE [threw |-> FALSE, what |-> "", preconditioner |-> "none"]

\* Lines 129-142: the stored preconditioner, or the "Unknown preconditioner" exception.
PreconditionerStage(using_iterative_solver, preconditioner) ==
    IF using_iterative_solver
    THEN IF preconditioner # "none" /\ preconditioner # "BBDP"
         THEN [threw |-> TRUE,
               what |-> "Unknown preconditioner \"" \o preconditioner \o
                        "\", use one of \"BBDP\" or \"none\"",
               preconditioner |-> preconditioner]
         ELSE [threw |-> FALSE, what |-> "", preconditioner |-> preconditioner]
    ELSE [threw |-> FALSE, what |-> "", preconditioner |-> "none"]

\* Outcome with a return where the source throws for an unknown jacobian: the
\* constructor ends early and the object exists with the members set so far.
OutcomeReturnOnUnknownJacobian(d) ==
    LET j == JacobianStage(d.jacobian)
        l == LinearSolverStage(d.jacobian, d.linear_solver)
        p == PreconditionerStage(l.using_iterative_solver, d.preconditioner)
        object(pre, iter) ==
            [print_stats |-> d.print_stats,
             jacobian |-> d.jacobian,
             preconditioner |-> pre,
             precon_half_bandwidth |-> d.precon_half_bandwidth,
             num_threads |-> d.num_threads,
             linear_solver |-> d.linear_solver,
             using_sparse_matrix |-> j.using_sparse_matrix,
             using_banded_matrix |-> j.using_banded_matrix,
             using_iterative_solver |-> iter]
    IN  IF j.threw THEN [threw |-> FALSE, what |-> "",
                         object |-> object(d.preconditioner, FALSE)]
        ELSE IF l.threw THEN [threw |-> TRUE, what |-> l.what, object |-> NoObject]
        ELSE IF p.threw THEN [threw |-> TRUE, what |-> p.what, object |-> NoObject]
        ELSE [threw |-> FALSE, what |-> "",
              object |-> object(p.preconditioner, l.using_iterative_solver)]

\* Outcome with the linear solver block placed before the jacobian block.
OutcomeSolverFirst(d) ==
    LET j == JacobianStage(d.jacobian)
        l == LinearSolverStage(d.jacobian, d.linear_solver)
        p == PreconditionerStage(l.using_iterative_solver, d.preconditioner)
    IN  IF l.threw THEN [threw |-> TRUE, what |-> l.what, object |-> NoObject]
        ELSE IF j.threw THEN [threw |-> TRUE, what |-> j.what, object |-> NoObject]
        ELSE IF p.threw THEN [threw |-> TRUE, what |-> p.what, object |-> NoObject]
        ELSE [threw |-> FALSE, what |-> "",
              object |-> [print_stats |-> d.print_stats,
                          jacobian |-> d.jacobian,
                          preconditioner |-> p.preconditioner,
                          precon_half_bandwidth |-> d.precon_half_bandwidth,
                          num_threads |-> d.num_threads,
                          linear_solver |-> d.linear_solver,
                          using_sparse_matrix |-> j.using_sparse_matrix,
                          using_banded_matrix |-> j.using_banded_matrix,
                          using_iterative_solver |-> l.using_iterative_solver]]

\* Lines 8-143: the outcome of the constructor for the dictionary d. The
\* member initialisers copy the entries; the body runs the three stages in
\* the order of the source and the first exception leaves the constructor.
Outcome(d) ==
    LET j == JacobianStage(d.jacobian)
        l == LinearSolverStage(d.jacobian, d.linear_solver)
        p == PreconditionerStage(l.using_iterative_solver, d.preconditioner)
    IN  IF j.threw THEN [threw |-> TRUE, what |-> j.what, object |-> NoObject]
        ELSE IF l.threw THEN [threw |-> TRUE, what |-> l.what, object |-> NoObject]
        ELSE IF p.threw THEN [threw |-> TRUE, what |-> p.what, object |-> NoObject]
        ELSE [threw |-> FALSE, what |-> "",
              object |-> [print_stats |-> d.print_stats,
                          jacobian |-> d.jacobian,
                          preconditioner |-> p.preconditioner,
                          precon_half_bandwidth |-> d.precon_half_bandwidth,
                          num_threads |-> d.num_threads,
                          linear_solver |-> d.linear_solver,
                          using_sparse_matrix |-> j.using_sparse_matrix,
                          using_banded_matrix |-> j.using_banded_matrix,
                          using_iterative_solver |-> l.using_iterative_solver]]

\* The dictionaries a caller passes.
Dicts ==
    [print_stats : BOOLEAN,
     jacobian : JacobianInputs,
     preconditioner : PreconditionerInputs,
     precon_half_bandwidth : 0..MaxHalfBandwidth,
     num_threads : 1..MaxThreads,
     linear_solver : LinearSolverInputs]

Init ==
    /\ dict = NoDict
    /\ status = "none"
    /\ self = NoObject
    /\ error = NoError

\* The call Options(d) that constructs the object: it runs once, and either
\* the object is constructed or std::domain_error is thrown.
Construct(d) ==
    LET r == Outcome(d)
    IN  /\ status = "none"
        /\ dict' = d
        /\ status' = IF r.threw THEN "threw" ELSE "constructed"
        /\ self' = r.object
        /\ error' = IF r.threw THEN [type |-> "std::domain_error", what |-> r.what]
                               ELSE NoError

Next == \E d \in Dicts : Construct(d)

Spec == Init /\ [][Next]_vars

TypeOK ==
    /\ status \in {"none", "constructed", "threw"}
    /\ dict \in Dicts \cup {NoDict}
    /\ (status = "threw") = (error # NoError)
    /\ (status # "constructed") => self = NoObject

\* -------------------------------------------------------------------------
\* Properties
\* -------------------------------------------------------------------------

\* The constructor has run.
Called == status # "none"

\* The (jacobian, linear_solver) pair of the call.
Pair == <<dict.jacobian, dict.linear_solver>>

\* The constructor threw std::domain_error.
Failed == status = "threw" /\ error.type = "std::domain_error"

\* C1 as stated: for every (jacobian, linear_solver) pair outside the
\* compatibility matrix, whatever the preconditioner, construction fails and
\* the message names both the jacobian value and the linear_solver value.
C1_AsStated ==
    (Called /\ Pair \notin CompatibilityMatrix) =>
        /\ Failed
        /\ Names(error.what, dict.jacobian)
        /\ Names(error.what, dict.linear_solver)

\* C1 amended: for every pair outside the compatibility matrix, whatever the
\* preconditioner, construction fails and the message names the jacobian
\* value; it names the linear_solver value as well when the jacobian is one
\* of the five recognized kinds.
C1_IncompatiblePairFails ==
    (Called /\ Pair \notin CompatibilityMatrix) =>
        /\ Failed
        /\ Names(error.what, dict.jacobian)
        /\ (dict.jacobian \in AcceptedJacobians => Names(error.what, dict.linear_solver))

\* A sparse jacobian with the dense solver and an unknown preconditioner was rejected.
C1_Witness ==
    /\ status = "threw"
    /\ dict.jacobian = "sparse"
    /\ dict.linear_solver = "SUNLinSol_Dense"
    /\ dict.preconditioner = "ILU"
    /\ Names(error.what, "SUNLinSol_Dense")

\* C2: for every jacobian value outside {sparse, banded, dense, none,
\* matrix-free}, construction fails with a domain error, whatever the
\* linear_solver and preconditioner are.
C2_UnknownJacobianFails ==
    (Called /\ dict.jacobian \notin AcceptedJacobians) => Failed

\* An unknown jacobian was rejected although the solver and the preconditioner are accepted ones.
C2_Witness ==
    /\ status = "threw"
    /\ dict.jacobian = "full"
    /\ dict.linear_solver = "SUNLinSol_KLU"
    /\ dict.preconditioner = "none"

\* C3: construction succeeds exactly when the pair is in the compatibility
\* matrix and, for an iterative solver, the preconditioner is "none" or "BBDP".
C3_AcceptedExactly ==
    Called =>
        ((status = "constructed") <=>
            /\ Pair \in CompatibilityMatrix
            /\ (dict.linear_solver \in IterativeSolvers =>
                    dict.preconditioner \in AcceptedPreconditioners))

\* A matrix-free jacobian with an iterative solver and BBDP was accepted.
C3_Witness ==
    /\ status = "constructed"
    /\ dict.jacobian = "matrix-free"
    /\ dict.linear_solver = "SUNLinSol_SPTFQMR"
    /\ dict.preconditioner = "BBDP"

\* C4: with an iterative solver and a sparse or matrix-free jacobian,
\* construction fails for every preconditioner other than "none" and "BBDP",
\* and for those two it succeeds and stores the preconditioner it was given.
C4_IterativePreconditioner ==
    (/\ Called
     /\ dict.linear_solver \in IterativeSolvers
     /\ dict.jacobian \in {"sparse", "matrix-free"}) =>
        IF dict.preconditioner \in {"none", "BBDP"}
        THEN status = "constructed" /\ self.preconditioner = dict.preconditioner
        ELSE Failed

\* An iterative solver kept the BBDP preconditioner.
C4_Witness ==
    /\ status = "constructed"
    /\ dict.linear_solver = "SUNLinSol_SPGMR"
    /\ dict.jacobian = "sparse"
    /\ self.preconditioner = "BBDP"

\* C5: with a direct solver and its compatible jacobian, construction
\* succeeds for every preconditioner given and the stored preconditioner is
\* "none".
C5_DirectForcesNone ==
    (/\ Called
     /\ dict.linear_solver \in DirectSolvers
     /\ Pair \in CompatibilityMatrix) =>
        /\ status = "constructed"
        /\ self.preconditioner = "none"

\* A direct solver was given an unrecognized preconditioner and stores "none".
C5_Witness ==
    /\ status = "constructed"
    /\ dict.linear_solver = "SUNLinSol_Band"
    /\ dict.preconditioner = "ILU"
    /\ self.preconditioner = "none"

\* C6: every constructed object holds a jacobian, a linear_solver and a
\* preconditioner of the accepted sets.
C6_AcceptedValuesOnly ==
    status = "constructed" =>
        /\ self.jacobian \in AcceptedJacobians
        /\ self.linear_solver \in AcceptedLinearSolvers
        /\ self.preconditioner \in AcceptedPreconditioners

\* An object was constructed from a dictionary whose preconditioner is not an accepted one.
C6_Witness ==
    /\ status = "constructed"
    /\ dict.preconditioner = "None"
    /\ dict.linear_solver = "SUNLinSol_KLU"

\* C7: validation runs jacobian kind, then pair compatibility, then
\* preconditioner, and reports the first failure only: an unknown jacobian is
\* reported as "Unknown jacobian type" whatever the solver, an incompatible
\* pair with a recognized jacobian is reported as such whatever the
\* preconditioner, and "Unknown preconditioner" is reported only for a valid
\* iterative combination.
C7_FirstFailureOnly ==
    Called =>
        /\ dict.jacobian \notin AcceptedJacobians =>
              /\ Failed
              /\ StartsWith(error.what, "Unknown jacobian type")
              /\ ~Contains(error.what, "Unknown linear solver")
              /\ ~Contains(error.what, "Unknown preconditioner")
        /\ (dict.jacobian \in AcceptedJacobians /\ Pair \notin CompatibilityMatrix) =>
              /\ Failed
              /\ StartsWith(error.what, "Unknown linear solver or incompatible options")
              /\ ~Contains(error.what, "Unknown preconditioner")
        /\ Contains(error.what, "Unknown preconditioner") =>
              /\ StartsWith(error.what, "Unknown preconditioner")
              /\ Pair \in CompatibilityMatrix
              /\ dict.linear_solver \in IterativeSolvers
              /\ dict.preconditioner \notin AcceptedPreconditioners

\* A dictionary with an unknown jacobian, an unknown solver and an unknown
\* preconditioner was rejected.
C7_Witness ==
    /\ status = "threw"
    /\ dict.jacobian = "full"
    /\ dict.linear_solver = "SUNLinSol_LapackDense"
    /\ dict.preconditioner = "ILU"

\* The recommendation that ends each of the jacobian-specific messages.
Recommendation(jacobian) ==
    CASE jacobian = "banded" ->
           "For a banded jacobian please use the SUNLinSol_Band linear solver"
      [] jacobian = "sparse" ->
           "For a sparse jacobian please use the SUNLinSol_KLU linear solver"
      [] jacobian = "matrix-free" ->
           "For a matrix-free jacobian please use one of the iterative linear solvers: " \o
           "\"SUNLinSol_SPBCGS\", \"SUNLinSol_SPFGMR\", \"SUNLinSol_SPGMR\", or \"SUNLinSol_SPTFQMR\"."
      [] jacobian = "none" ->
           "For no jacobian please use the SUNLinSol_Dense solver"

\* C8: a recognized jacobian with an incompatible or unknown solver gets the
\* error of its jacobian kind and no other: banded, sparse, matrix-free and
\* none get their recommendation, dense gets the message without one.
C8_ErrorPerJacobian ==
    (Called /\ dict.jacobian \in AcceptedJacobians /\ Pair \notin CompatibilityMatrix) =>
        /\ Failed
        /\ StartsWith(error.what, "Unknown linear solver or incompatible options")
        /\ \A k \in AcceptedJacobians \ {"dense"} :
              Contains(error.what, Recommendation(k)) <=> (k = dict.jacobian)
        /\ dict.jacobian = "dense" => ~Contains(error.what, "please use")

\* A banded jacobian with an iterative solver was told to use SUNLinSol_Band.
C8_Witness ==
    /\ status = "threw"
    /\ dict.jacobian = "banded"
    /\ dict.linear_solver = "SUNLinSol_SPBCGS"
    /\ Contains(error.what, "please use the SUNLinSol_Band linear solver")

\* C9: in a constructed object using_iterative_solver is true exactly when
\* linear_solver is an iterative one; when it is true the jacobian is sparse
\* or matrix-free, and it is true whenever the jacobian is matrix-free.
C9_IterativeFlag ==
    status = "constructed" =>
        /\ self.using_iterative_solver <=> (self.linear_solver \in IterativeSolvers)
        /\ self.using_iterative_solver => self.jacobian \in {"sparse", "matrix-free"}
        /\ self.jacobian = "matrix-free" => self.using_iterative_solver

\* An object with a sparse jacobian and an iterative solver has the flag set.
C9_Witness ==
    /\ status = "constructed"
    /\ self.jacobian = "sparse"
    /\ self.linear_solver = "SUNLinSol_SPFGMR"
    /\ self.using_iterative_solver

\* C10: in a constructed object using_sparse_matrix is true exactly for the
\* sparse and matrix-free jacobians, using_banded_matrix exactly for the
\* banded one, never both, and both are false exactly for dense and none.
C10_MatrixFlags ==
    status = "constructed" =>
        /\ self.using_sparse_matrix <=> (self.jacobian \in {"sparse", "matrix-free"})
        /\ self.using_banded_matrix <=> (self.jacobian = "banded")
        /\ ~(self.using_sparse_matrix /\ self.using_banded_matrix)
        /\ (~self.using_sparse_matrix /\ ~self.using_banded_matrix)
              <=> (self.jacobian \in {"dense", "none"})

\* An object with no jacobian has both matrix flags cleared.
C10_Witness ==
    /\ status = "constructed"
    /\ self.jacobian = "none"
    /\ ~self.using_sparse_matrix
    /\ ~self.using_banded_matrix
====
